---------------------------- MODULE Spec2Model ----------------------------
(***************************************************************************)
(* A model of anima.pipeline.ui.version_creator.MainDialog: the task tree, *)
(* the take list, the previous-versions table with its cached version list *)
(* and the handlers that keep them in step with the shared database.       *)
(*                                                                         *)
(* Conventions                                                             *)
(*   - a text (take name, dialog input) is a sequence of one-character     *)
(*     strings, so that the regular expressions of the source can be       *)
(*     applied character by character;                                     *)
(*   - a Version is identified by its index in db;                         *)
(*   - rows of the list and table widgets are 0-based as in Qt, -1 is      *)
(*     "no current row"; None is Python's None.                            *)
(*   - Qt emits currentItemChanged / currentTextChanged synchronously, so  *)
(*     a handler is an operator from the widget state (a record) to the    *)
(*     widget state, and the slots a signal calls are nested calls.        *)
(***************************************************************************)
EXTENDS Integers, Sequences, FiniteSets, TLC

None == "None"

\* None where a Version is expected (Versions are the indices 1, 2, ... of db)
NoVersion == 0

-----------------------------------------------------------------------------
(* Characters and Python's / Qt's string operations                        *)

UPPER == <<"A","B","C","D","E","F","G","H","I","J","K","L","M",
           "N","O","P","Q","R","S","T","U","V","W","X","Y","Z">>

LOWER == <<"a","b","c","d","e","f","g","h","i","j","k","l","m",
           "n","o","p","q","r","s","t","u","v","w","x","y","z">>

DIGITS == <<"0","1","2","3","4","5","6","7","8","9">>

\* the characters of [a-zA-Z0-9_] in code point order
ASCII_WORD == DIGITS \o UPPER \o <<"_">> \o LOWER

Range(s) == {s[i] : i \in DOMAIN s}

IndexOf(s, c) == CHOOSE i \in DOMAIN s : s[i] = c

\* a cased letter outside ASCII, written as the atoms "e-acute" (U+00E9,
\* lower case) and "E-ACUTE" (U+00C9, upper case)
IsLower(c) == c \in Range(LOWER) \/ c = "e-acute"

IsUpper(c) == c \in Range(UPPER) \/ c = "E-ACUTE"

IsCased(c) == IsLower(c) \/ IsUpper(c)

ToUpper(c) ==
    IF c \in Range(LOWER) THEN UPPER[IndexOf(LOWER, c)]
    ELSE IF c = "e-acute" THEN "E-ACUTE" ELSE c

ToLower(c) ==
    IF c \in Range(UPPER) THEN LOWER[IndexOf(UPPER, c)]
    ELSE IF c = "E-ACUTE" THEN "e-acute" ELSE c

\* \s of the re module: space, tab, newline
IsSpaceOrHyphen(c) == c \in {" ", "\t", "\n", "-"}

IsWordChar(c) == c \in Range(ASCII_WORD)

\* unicode.title(): a cased character is upper-cased when it follows an
\* uncased one (or starts the text) and lower-cased when it follows a cased one
RECURSIVE TitleFrom(_, _, _)
TitleFrom(s, i, prev_cased) ==
    IF i > Len(s) THEN <<>>
    ELSE IF IsCased(s[i])
         THEN <<IF prev_cased THEN ToLower(s[i]) ELSE ToUpper(s[i])>>
              \o TitleFrom(s, i + 1, TRUE)
         ELSE <<s[i]>> \o TitleFrom(s, i + 1, FALSE)

title(s) == TitleFrom(s, 1, FALSE)

\* re.sub(r'[\s\-]+', '_', s)
RECURSIVE SubSpaceRuns(_, _)
SubSpaceRuns(s, i) ==
    IF i > Len(s) THEN <<>>
    ELSE IF IsSpaceOrHyphen(s[i])
         THEN IF i > 1 /\ IsSpaceOrHyphen(s[i - 1])
              THEN SubSpaceRuns(s, i + 1)
              ELSE <<"_">> \o SubSpaceRuns(s, i + 1)
         ELSE <<s[i]>> \o SubSpaceRuns(s, i + 1)

\* re.sub(r'[^a-zA-Z0-9_]+', '', s)
StripNonWord(s) == SelectSeq(s, IsWordChar)

\* re.sub(r'[_]+', '_', s)
RECURSIVE CollapseUnderscores(_, _)
CollapseUnderscores(s, i) ==
    IF i > Len(s) THEN <<>>
    ELSE IF s[i] = "_" /\ i > 1 /\ s[i - 1] = "_"
         THEN CollapseUnderscores(s, i + 1)
         ELSE <<s[i]>> \o CollapseUnderscores(s, i + 1)

\* re.sub(r'[_]+$', '', s)
RECURSIVE StripTrailingUnderscores(_)
StripTrailingUnderscores(s) ==
    IF s # <<>> /\ s[Len(s)] = "_"
    THEN StripTrailingUnderscores(SubSeq(s, 1, Len(s) - 1))
    ELSE s

\* the conditioning of the take name in add_take_toolButton_clicked
condition_take_name(take_name) ==
    StripTrailingUnderscores(
        CollapseUnderscores(
            StripNonWord(SubSpaceRuns(title(take_name), 1)), 1))

\* QString::operator< on texts of word characters: by code point
Ord(c) == IndexOf(ASCII_WORD, c)

RECURSIVE TextLess(_, _)
TextLess(a, b) ==
    IF b = <<>> THEN FALSE
    ELSE IF a = <<>> THEN TRUE
    ELSE IF a[1] = b[1] THEN TextLess(Tail(a), Tail(b))
    ELSE Ord(a[1]) < Ord(b[1])


-----------------------------------------------------------------------------
(* Bounds of the model                                                     *)

\* the database holds at most MaxVersions Version rows
MaxVersions == 6

\* version_count_spinBox takes the values 1 .. MaxCount
MaxCount == 2

\* add-take does not grow the take list beyond MaxTakes entries
MaxTakes == 2

-----------------------------------------------------------------------------
(* The entities of the shared database the dialog reads                    *)

Main == <<"M","a","i","n">>

Alt == <<"A","l","t">>

\* stalker.defaults.version_take_name
version_take_name == Main

Projects == {"P1", "P2"}

Tasks == {"T1", "T2", "T3"}

\* task.project
ProjectOf(task) == IF task = "T3" THEN "P2" ELSE "P1"

\* project.active
IsActive(project) == project = "P1"

\* logged_in_user.tasks and logged_in_user.projects
UserTasks == {"T1", "T3"}

UserProjects == {"P1", "P2"}

\* the names of the statuses of the Version StatusList, in its order
StatusNames == <<"WIP", "CMPL">>

Users == {"me", "other"}

\* the tasks other users save Versions of while the dialog is open
OtherUsersTasks == {"T1"}

\* the take names Versions are stored with
StoredTakes == {Main, Alt}

\* the texts entered in the "Change Note..." dialog
NoteTexts == {"fixed"}

VersionRows ==
    [task : Tasks, take_name : StoredTakes, version_number : 1 .. MaxVersions,
     is_published : BOOLEAN, status : Range(StatusNames), created_by : Users,
     note : NoteTexts \cup {None}]

\* the rows the database holds when the dialog is constructed; note is the
\* content of version.notes[-1], None for a Version without notes
InitialVersions ==
    << [task |-> "T1", take_name |-> Main, version_number |-> 1,
        is_published |-> TRUE, status |-> "CMPL", created_by |-> "other",
        note |-> None],
       [task |-> "T1", take_name |-> Main, version_number |-> 2,
        is_published |-> FALSE, status |-> "WIP", created_by |-> "me",
        note |-> None],
       [task |-> "T1", take_name |-> Main, version_number |-> 3,
        is_published |-> TRUE, status |-> "CMPL", created_by |-> "other",
        note |-> None],
       [task |-> "T3", take_name |-> Main, version_number |-> 1,
        is_published |-> TRUE, status |-> "WIP", created_by |-> "other",
        note |-> None],
       [task |-> "T2", take_name |-> Alt, version_number |-> 1,
        is_published |-> FALSE, status |-> "WIP", created_by |-> "other",
        note |-> None] >>

Min(a, b) == IF a < b THEN a ELSE b

Reverse(s) == [i \in 1 .. Len(s) |-> s[Len(s) + 1 - i]]

\* Query without the is_published filter
Query_IgnoringPublished(d, task, take_name, published) ==
    {v \in DOMAIN d : d[v].task = task /\ d[v].take_name = take_name}

\* Version.query.filter(Version.task == task)
\*              .filter(Version.take_name == take_name)
\* and, with published, .filter(Version.is_published == True)
Query(d, task, take_name, published) ==
    {v \in DOMAIN d : /\ d[v].task = task
                      /\ d[v].take_name = take_name
                      /\ published => d[v].is_published}

\* query.order_by(Version.version_number.desc())
RECURSIVE OrderByVersionNumberDesc(_, _)
OrderByVersionNumberDesc(d, S) ==
    IF S = {} THEN <<>>
    ELSE LET first == CHOOSE v \in S :
                        \A w \in S : d[w].version_number <= d[v].version_number
         IN  <<first>> \o OrderByVersionNumberDesc(d, S \ {first})

\* Limit taking the last rows of the descending order, the lowest numbers
Limit_KeepingLowest(s, count) ==
    SubSeq(s, Len(s) - Min(count, Len(s)) + 1, Len(s))

\* query.limit(count).all()
Limit(s, count) == SubSeq(s, 1, Min(count, Len(s)))

\* DBSession.query(distinct(Version.take_name)).filter(Version.task == entity)
\* The database returns the names in an order of its own: ord lists the
\* stored take names in that order.
DistinctTakeNames(d, entity, ord) ==
    SelectSeq(ord, LAMBDA t : \E v \in DOMAIN d :
                                 d[v].task = entity /\ d[v].take_name = t)

TakeOrders == {<<Main, Alt>>, <<Alt, Main>>}

\* the orders that list the take names of entity differently
TakeOrdersOf(d, entity) ==
    IF \A ord \in TakeOrders :
          DistinctTakeNames(d, entity, ord) = DistinctTakeNames(d, entity, <<Main, Alt>>)
    THEN {<<Main, Alt>>}
    ELSE TakeOrders

\* the version number stalker gives a new Version of a task and take
NextVersionNumber(d, task, take_name) ==
    LET S == Query(d, task, take_name, FALSE)
    IN  IF S = {} THEN 1
        ELSE 1 + (CHOOSE n \in {d[v].version_number : v \in S} :
                    \A v \in S : d[v].version_number <= n)


-----------------------------------------------------------------------------
(* The handlers, as operators on the widget state w (a record with the     *)
(* fields of WidgetState below) and the database d                         *)

\* self.tasks_treeWidget.currentItem().stalker_entity, narrowed to a Task
get_task(w) == IF w.current_item \in Tasks THEN w.current_item ELSE None

\* self.takes_listWidget.currentItem().text(), "" without a current item
current_take_name(w) ==
    IF w.current_take = -1 THEN <<>> ELSE w.takes[w.current_take + 1]

\* set_status leaving the combo box alone
set_status_Ignored(w, status) == w

\* statuses_comboBox.findText + setCurrentIndex
set_status(w, status) ==
    IF status \in Range(StatusNames) THEN [w EXCEPT !.status = status] ELSE w

\* QTableWidget.clear() drops the items and the current index and keeps the
\* row count; the cache is reset
clear_previous_versions_tableWidget(w) ==
    [w EXCEPT !.versions = <<>>, !.current_row = -1]

\* the query of update_previous_versions_tableWidget and its reversal
query_versions(d, task, take_name, published_only, count) ==
    Reverse(Limit(OrderByVersionNumberDesc(d,
                      Query(d, task, take_name, published_only)), count))

\* update_previous_versions_tableWidget going on with an empty take name
update_previous_versions_WithoutTakeCheck(w, d) ==
    LET c == clear_previous_versions_tableWidget(w)
        task == get_task(c)
        versions == query_versions(d, task, current_take_name(c),
                                   c.published_only, c.version_count)
        shown == [c EXCEPT !.versions = versions, !.row_count = Len(versions)]
    IN  IF task = None THEN c
        ELSE IF versions # <<>>
             THEN set_status(shown, d[versions[Len(versions)]].status)
             ELSE shown

\* the listing: the cache and the table are cleared, and filled again when
\* a task and a take with a name are selected
update_previous_versions_tableWidget(w, d) ==
    LET c == clear_previous_versions_tableWidget(w)
        task == get_task(c)
        take_name == current_take_name(c)
        versions == query_versions(d, task, take_name, c.published_only,
                                   c.version_count)
        shown == [c EXCEPT !.versions = versions, !.row_count = Len(versions)]
    IN  IF task = None THEN c
        ELSE IF take_name = <<>> THEN c
        ELSE IF versions # <<>>
             THEN set_status(shown, d[versions[Len(versions)]].status)
             ELSE shown

\* the slot of takes_listWidget.currentTextChanged
takes_listWidget_changed(w, d) ==
    LET u == update_previous_versions_tableWidget(w, d)
        take_name == current_take_name(u)
        task == get_task(u)
        found == OrderByVersionNumberDesc(d, Query(d, task, take_name, FALSE))
    IN  IF task = None THEN u
        ELSE IF found # <<>> THEN set_status(u, d[found[1]].status)
        ELSE u

\* takes_listWidget.setCurrentItem / a click on a take: the signal is
\* emitted only when the current item changes
set_current_take(w, d, row) ==
    IF row = w.current_take THEN w
    ELSE takes_listWidget_changed([w EXCEPT !.current_take = row], d)

\* takes_listWidget.clear(): the selection model is cleared first (the slot
\* runs while no item is current), then the items are removed
takes_listWidget_clear(w, d) ==
    [set_current_take(w, d, -1) EXCEPT !.takes = <<>>]

\* tasks_treeWidget_changed appending the default take whatever the
\* database returned
tasks_treeWidget_changed_AlwaysAppending(w, d, ord) ==
    IF w.current_item = None THEN w
    ELSE LET cleared == takes_listWidget_clear(w, d)
             takes == Append(DistinctTakeNames(d, w.current_item, ord),
                             version_take_name)
         IN  IF w.current_item \in Projects THEN cleared
             ELSE set_current_take([cleared EXCEPT !.takes = takes], d, 0)

\* the slot of tasks_treeWidget.currentItemChanged
tasks_treeWidget_changed(w, d, ord) ==
    IF w.current_item = None THEN w
    ELSE LET cleared == takes_listWidget_clear(w, d)
             from_db == DistinctTakeNames(d, w.current_item, ord)
             takes == IF version_take_name \in Range(from_db)
                      THEN from_db
                      ELSE Append(from_db, version_take_name)
         IN  IF w.current_item \in Projects THEN cleared
             ELSE set_current_take([cleared EXCEPT !.takes = takes], d, 0)

\* tasks_treeWidget.setCurrentItem / a click on a tree item
set_current_item(w, d, item, ord) ==
    IF item = w.current_item THEN w
    ELSE tasks_treeWidget_changed([w EXCEPT !.current_item = item], d, ord)

\* the entities that get an item in fill_tasks_treeWidget
TreeEntities(my_tasks_only) ==
    LET tasks == IF my_tasks_only THEN UserTasks
                 ELSE {t \in Tasks : ProjectOf(t) \in UserProjects}
    IN  tasks \cup {ProjectOf(t) : t \in tasks}

\* the slot of my_tasks_only_checkBox.stateChanged: tasks_treeWidget.clear()
\* drops the current item (its slot returns at once: no current item) and
\* the tree is filled again
fill_tasks_treeWidget(w, d) ==
    LET cleared == set_current_item(w, d, None, <<>>)
    IN  [cleared EXCEPT !.tree_items = TreeEntities(w.my_tasks_only)]

\* find_entity_item_in_tree_widget finding an item for every entity
find_entity_item_Always(w, entity) == entity

find_entity_item_in_tree_widget(w, entity) ==
    IF entity \in w.tree_items THEN entity ELSE None

\* takes_listWidget.findItems(take_name, MatchExactly): the matching rows
findItems(w, take_name) ==
    SelectSeq([i \in 1 .. Len(w.takes) |-> i - 1],
              LAMBDA r : w.takes[r + 1] = take_name)

\* the first row of the cache that holds version, -1 when none does
IndexInVersions(w, version) ==
    IF \E i \in DOMAIN w.versions : w.versions[i] = version
    THEN (CHOOSE i \in DOMAIN w.versions :
            /\ w.versions[i] = version
            /\ \A j \in 1 .. i - 1 : w.versions[j] # version) - 1
    ELSE -1

restore_ui(w, d, version, ord) ==
    IF version = NoVersion THEN w
    ELSE IF ~IsActive(ProjectOf(d[version].task)) THEN w
    ELSE LET item == find_entity_item_in_tree_widget(w, d[version].task)
             on_task == set_current_item(w, d, item, ord)
             items == findItems(on_task, d[version].take_name)
             on_take == set_current_take(on_task, d, items[1])
             index == IndexInVersions(on_take, version)
         IN  IF item = None THEN w
             ELSE IF items = <<>>
                  THEN [on_task EXCEPT !.raised = "IndexError"]
             ELSE IF index # -1 THEN [on_take EXCEPT !.current_row = index]
             ELSE on_take

\* QListWidget.sortItems(): a stable ascending sort; the current item stays
\* current. SortedPosition is the row (1-based) item i moves to.
SortedPosition(takes, i) ==
    1 + Cardinality({j \in DOMAIN takes :
                        \/ TextLess(takes[j], takes[i])
                        \/ takes[j] = takes[i] /\ j < i})

sortItems(w) ==
    LET from(k) == CHOOSE i \in DOMAIN w.takes : SortedPosition(w.takes, i) = k
    IN  [w EXCEPT !.takes = [k \in 1 .. Len(w.takes) |-> w.takes[from(k)]],
                  !.current_take =
                      IF w.current_take = -1 THEN -1
                      ELSE SortedPosition(w.takes, w.current_take + 1) - 1]

\* add_take_toolButton_clicked without the look-up in the take list
add_take_WithoutInListCheck(w, d, text, ok) ==
    LET take_name == condition_take_name(text)
        sorted == sortItems([w EXCEPT !.takes = Append(w.takes, take_name)])
        items == findItems(sorted, take_name)
    IN  IF w.current_take = -1 THEN [w EXCEPT !.raised = "AttributeError"]
        ELSE IF ~ok THEN w
        ELSE IF text = <<>> THEN w
        ELSE IF items # <<>> THEN set_current_take(sorted, d, items[1])
        ELSE sorted

\* the dialog returned (text, ok)
add_take_toolButton_clicked(w, d, text, ok) ==
    LET take_name == condition_take_name(text)
        in_list == \E i \in DOMAIN w.takes : w.takes[i] = take_name
        sorted == sortItems([w EXCEPT !.takes = Append(w.takes, take_name)])
        items == findItems(sorted, take_name)
    IN  IF w.current_take = -1 THEN [w EXCEPT !.raised = "AttributeError"]
        ELSE IF ~ok THEN w
        ELSE IF text = <<>> THEN w
        ELSE IF in_list THEN w
        ELSE IF items # <<>> THEN set_current_take(sorted, d, items[1])
        ELSE sorted


\* versions[index] with index = currentRow(): Python reads index -1 as the
\* last element; an index beyond the cache raises IndexError, which is
\* caught, and None is returned
get_previous_version(w) ==
    IF w.current_row = -1
    THEN (IF w.versions = <<>> THEN NoVersion
          ELSE w.versions[Len(w.versions)])
    ELSE IF w.current_row < Len(w.versions)
         THEN w.versions[w.current_row + 1]
         ELSE NoVersion

chose_pushButton_clicked(w) ==
    LET version == get_previous_version(w)
    IN  [w EXCEPT !.chosen_version = version,
                  !.closed = (version # NoVersion)]

\* a call of a method of the environment: the version passed, the force
\* flag of open_ and whether the call returned (it raised otherwise)
Call(op, version, force, returned) ==
    [op |-> op, version |-> version, force |-> force, returned |-> returned]

\* open_pushButton_clicked going on to post_open and close when the user
\* answers No
open_WithoutReturnOnNo(w, first_raises, answer_yes, forced_raises) ==
    LET old_version == get_previous_version(w)
        first == Call("open_", old_version, FALSE, ~first_raises)
        forced == Call("open_", old_version, TRUE, ~forced_raises)
        post_open == Call("post_open", old_version, FALSE, TRUE)
    IN  IF w.environment = None THEN [w EXCEPT !.closed = TRUE]
        ELSE IF ~first_raises \/ ~answer_yes
             THEN [w EXCEPT !.calls = <<first, post_open>>, !.closed = TRUE]
        ELSE IF forced_raises
             THEN [w EXCEPT !.calls = <<first, forced>>,
                            !.raised = "RuntimeError"]
        ELSE [w EXCEPT !.calls = <<first, forced, post_open>>,
                       !.closed = TRUE]

\* open_pushButton_clicked: first_raises, environment.open_ raises
\* RuntimeError for unsaved changes; answer_yes, the answer to the question
\* asked then; forced_raises, the call with force raises it as well
open_pushButton_clicked(w, first_raises, answer_yes, forced_raises) ==
    LET old_version == get_previous_version(w)
        first == Call("open_", old_version, FALSE, ~first_raises)
        forced == Call("open_", old_version, TRUE, ~forced_raises)
        post_open == Call("post_open", old_version, FALSE, TRUE)
    IN  IF w.environment = None THEN [w EXCEPT !.closed = TRUE]
        ELSE IF ~first_raises
             THEN [w EXCEPT !.calls = <<first, post_open>>, !.closed = TRUE]
        ELSE IF ~answer_yes THEN [w EXCEPT !.calls = <<first>>]
        ELSE IF forced_raises
             THEN [w EXCEPT !.calls = <<first, forced>>,
                            !.raised = "RuntimeError"]
        ELSE [w EXCEPT !.calls = <<first, forced, post_open>>,
                       !.closed = TRUE]

\* reference_pushButton_clicked going on with an un-published version
reference_WithoutPublishedCheck(w, d) ==
    LET previous_version == get_previous_version(w)
    IN  IF previous_version = NoVersion
        THEN [w EXCEPT !.raised = "AttributeError"]
        ELSE IF w.environment # None
             THEN [w EXCEPT !.calls =
                      <<Call("reference", previous_version, FALSE, TRUE)>>]
        ELSE w

\* previous_version.is_published raises AttributeError on None
reference_pushButton_clicked(w, d) ==
    LET previous_version == get_previous_version(w)
    IN  IF previous_version = NoVersion
        THEN [w EXCEPT !.raised = "AttributeError"]
        ELSE IF ~d[previous_version].is_published THEN w
        ELSE IF w.environment # None
             THEN [w EXCEPT !.calls =
                      <<Call("reference", previous_version, FALSE, TRUE)>>]
        ELSE w

import_pushButton_clicked(w) ==
    IF w.environment # None
    THEN [w EXCEPT !.calls =
             <<Call("import_", get_previous_version(w), FALSE, TRUE)>>]
    ELSE w

\* dialog.DialogCode, the test made after dialog.exec_(): the enumeration
\* type QDialog.DialogCode, not the code exec_ returned, and true as any type
DialogCode == TRUE

\* get_logged_in_user with the user of the LocalSession and the answers the
\* login dialogs get (TRUE: the user logs in, FALSE: the dialog is
\* rejected): the user returned and the user of the LocalSession afterwards
RECURSIVE get_logged_in_user(_, _)
get_logged_in_user(user, answers) ==
    IF user # None THEN [logged_in_user |-> user, session_user |-> user]
    ELSE LET after == IF Head(answers) THEN "me" ELSE None
         IN  IF DialogCode
             THEN [logged_in_user |-> after, session_user |-> after]
             ELSE get_logged_in_user(after, Tail(answers))

\* get_new_version for a selected task and a current take: the Version built
\* from the input fields; published, publish_checkBox.isChecked(); note, the
\* text of note_textEdit (None: empty); a login dialog asked for is accepted
get_new_version(w, d, published, note) ==
    [task |-> get_task(w), take_name |-> current_take_name(w),
     version_number |-> NextVersionNumber(d, get_task(w),
                                          current_take_name(w)),
     is_published |-> published, status |-> w.status,
     created_by |-> get_logged_in_user(w.session_user, <<TRUE>>).logged_in_user,
     note |-> note]

\* what the Save As steps below have in common; build_error, Version(...)
\* raises TypeError or ValueError; save_error, environment.save_as raises
\* RuntimeError; commit_first, add and commit come before the save step.
\* Without a task get_new_version returns None and without a current take
\* currentItem().text() raises AttributeError: what follows with None
\* (update_paths of None, save_as or add of None) raises as well, short of a
\* RuntimeError of save_as, which is caught.
save_as_steps(w, d, build_error, save_error, published, note, ord, commit_first) ==
    LET new_version == get_new_version(w, d, published, note)
        committed == Append(d, new_version)
        save_as(returned) == Call("save_as", Len(committed), FALSE, returned)
    IN  IF w.current_item \in Tasks /\ w.current_take = -1
        THEN [w |-> [w EXCEPT !.raised = "AttributeError"], d |-> d]
        ELSE IF get_task(w) = None
        THEN IF w.environment # None /\ save_error
             THEN [w |-> [w EXCEPT !.calls = <<save_as(FALSE)>>], d |-> d]
             ELSE [w |-> [w EXCEPT !.raised = "AttributeError"], d |-> d]
        ELSE IF build_error THEN [w |-> w, d |-> d]
        ELSE IF w.environment # None /\ save_error
        THEN [w |-> [w EXCEPT !.calls = <<save_as(FALSE)>>],
              d |-> IF commit_first THEN committed ELSE d]
        ELSE IF w.environment # None
        THEN [w |-> [w EXCEPT !.calls = <<save_as(TRUE)>>, !.closed = TRUE],
              d |-> committed]
        ELSE [w |-> tasks_treeWidget_changed(w, committed, ord),
              d |-> committed]

\* save_as_pushButton_clicked committing before environment.save_as is
\* called
save_as_CommittingFirst(w, d, build_error, save_error, published, note, ord) ==
    save_as_steps(w, d, build_error, save_error, published, note, ord, TRUE)

\* save_as_pushButton_clicked: the widget state and the database afterwards
save_as_pushButton_clicked(w, d, build_error, save_error, published, note, ord) ==
    save_as_steps(w, d, build_error, save_error, published, note, ord, FALSE)

-----------------------------------------------------------------------------
(* The state of the dialog and of the database                             *)

VARIABLES
    db,             \* the Version rows of the shared database
    mode,           \* self.mode: 0 is Save-As, 1 is Read-Only
    my_tasks_only,  \* my_tasks_only_checkBox.isChecked()
    tree_items,     \* the entities with an item in tasks_treeWidget
    current_item,   \* tasks_treeWidget.currentItem().stalker_entity, or None
    takes,          \* the texts of the items of takes_listWidget
    current_take,   \* takes_listWidget.currentRow()
    versions,       \* previous_versions_tableWidget.versions, the cache
    row_count,      \* previous_versions_tableWidget.rowCount()
    current_row,    \* previous_versions_tableWidget.currentRow()
    status,         \* statuses_comboBox.currentText()
    published_only, \* show_published_only_checkBox.isChecked()
    version_count,  \* version_count_spinBox.value()
    raised,         \* the exception the last handler ended with, or None
    environment,    \* self.environment: None or an EnvironmentBase
    calls,          \* the calls the last handler made on the environment
    chosen_version, \* self.chosen_version, NoVersion for None
    closed,         \* self.close() was called
    session_user,   \* LocalSession().logged_in_user, or None
    last            \* the last event: the slot that ran and, for restore_ui
                    \* and add-take, the input it got

vars == <<db, mode, my_tasks_only, tree_items, current_item, takes, current_take,
          versions, row_count, current_row, status, published_only,
          version_count, raised, environment, calls, chosen_version, closed,
          session_user, last>>

\* the state of the dialog as the handlers take it, with no exception
\* pending and no call made yet
WidgetState ==
    [mode |-> mode, my_tasks_only |-> my_tasks_only, tree_items |-> tree_items,
     current_item |-> current_item, takes |-> takes,
     current_take |-> current_take, versions |-> versions,
     row_count |-> row_count, current_row |-> current_row, status |-> status,
     published_only |-> published_only, version_count |-> version_count,
     raised |-> None, environment |-> environment, calls |-> <<>>,
     chosen_version |-> chosen_version, closed |-> closed,
     session_user |-> session_user]

\* an event reached the dialog, which is open, and its handler returned with
\* the state w
Returns(w) ==
    /\ ~closed
    /\ mode' = w.mode
    /\ my_tasks_only' = w.my_tasks_only
    /\ tree_items' = w.tree_items
    /\ current_item' = w.current_item
    /\ takes' = w.takes
    /\ current_take' = w.current_take
    /\ versions' = w.versions
    /\ row_count' = w.row_count
    /\ current_row' = w.current_row
    /\ status' = w.status
    /\ published_only' = w.published_only
    /\ version_count' = w.version_count
    /\ raised' = w.raised
    /\ environment' = w.environment
    /\ calls' = w.calls
    /\ chosen_version' = w.chosen_version
    /\ closed' = w.closed
    /\ session_user' = w.session_user

Event(op, arg) == [op |-> op, arg |-> arg]

\* the texts typed into the add-take dialog
TakeTexts ==
    { <<>>,
      <<"m","a","i","n">>,
      <<" ","-","-"," ">>,
      <<"e-acute","#">>,
      <<"a"," ","b">> }

\* the logged in user
Me == "me"

\* an instance of a class derived from EnvironmentBase
Env == "EnvironmentBase"

\* __init__ and _set_defaults up to the restoring of the ui: the tree is
\* filled, "Main" is the only take and is current, nothing is listed
Constructed(m, env, mto, count) ==
    [mode |-> m, my_tasks_only |-> mto, tree_items |-> TreeEntities(mto),
     current_item |-> None, takes |-> <<version_take_name>>,
     current_take |-> 0, versions |-> <<>>, row_count |-> 0,
     current_row |-> -1, status |-> StatusNames[1], published_only |-> FALSE,
     version_count |-> count, raised |-> None, environment |-> env,
     calls |-> <<>>, chosen_version |-> NoVersion, closed |-> FALSE,
     session_user |-> Me]

\* the dialog starts in the state w, on the database as first held
Starts(w) ==
    /\ db = InitialVersions
    /\ mode = w.mode
    /\ my_tasks_only = w.my_tasks_only
    /\ tree_items = w.tree_items
    /\ current_item = w.current_item
    /\ takes = w.takes
    /\ current_take = w.current_take
    /\ versions = w.versions
    /\ row_count = w.row_count
    /\ current_row = w.current_row
    /\ status = w.status
    /\ published_only = w.published_only
    /\ version_count = w.version_count
    /\ raised = w.raised
    /\ environment = w.environment
    /\ calls = w.calls
    /\ chosen_version = w.chosen_version
    /\ closed = w.closed
    /\ session_user = w.session_user
    /\ last = Event("init", None)

\* the dialog as constructed without an environment, in the default mode
\* (Save-As), by a logged in user
Init ==
    \E mto \in BOOLEAN, count \in 1 .. MaxCount :
        Starts(Constructed(0, None, mto, count))

\* a click on an item of the task tree
SelectItem ==
    \E item \in tree_items : \E ord \in TakeOrdersOf(db, item) :
        /\ item # current_item
        /\ Returns(set_current_item(WidgetState, db, item, ord))
        /\ last' = Event("tasks_treeWidget_changed", None)
        /\ UNCHANGED db

\* my_tasks_only_checkBox is toggled
MyTasksOnlyToggled ==
    /\ Returns(fill_tasks_treeWidget(
           [WidgetState EXCEPT !.my_tasks_only = ~my_tasks_only], db))
    /\ last' = Event("fill_tasks_treeWidget", None)
    /\ UNCHANGED db

\* a click on an item of the take list
SelectTake ==
    \E row \in 0 .. Len(takes) - 1 :
        /\ row # current_take
        /\ Returns(set_current_take(WidgetState, db, row))
        /\ last' = Event("takes_listWidget_changed", None)
        /\ UNCHANGED db

\* add_take_toolButton (hidden in Read-Only mode) is clicked and the input
\* dialog is answered
AddTake ==
    \E ok \in BOOLEAN : \E text \in IF ok THEN TakeTexts ELSE {<<>>} :
        /\ mode = 0
        /\ Returns(add_take_toolButton_clicked(WidgetState, db, text, ok))
        /\ Len(takes') <= MaxTakes
        /\ last' = IF ok THEN Event("add_take", text)
                         ELSE Event("add_take_cancelled", None)
        /\ UNCHANGED db

\* show_published_only_checkBox is toggled
PublishedOnlyToggled ==
    /\ Returns(update_previous_versions_tableWidget(
           [WidgetState EXCEPT !.published_only = ~published_only], db))
    /\ last' = Event("update_previous_versions_tableWidget", None)
    /\ UNCHANGED db

\* version_count_spinBox gets another value
VersionCountChanged ==
    \E count \in 1 .. MaxCount :
        /\ count # version_count
        /\ Returns(update_previous_versions_tableWidget(
               [WidgetState EXCEPT !.version_count = count], db))
        /\ last' = Event("update_previous_versions_tableWidget", None)
        /\ UNCHANGED db

\* a click on a row of the previous-versions table
SelectRow ==
    \E row \in 0 .. row_count - 1 :
        /\ row # current_row
        /\ Returns([WidgetState EXCEPT !.current_row = row])
        /\ last' = Event("row_clicked", None)
        /\ UNCHANGED db

\* guess_from_path_lineEdit_changed: restore_ui with the Version of the
\* path, None when the path is no Version's
GuessFromPath ==
    \E version \in {NoVersion} \cup DOMAIN db :
      \E ord \in IF version = NoVersion THEN {<<Main, Alt>>}
                  ELSE TakeOrdersOf(db, db[version].task) :
        /\ Returns(restore_ui(WidgetState, db, version, ord))
        /\ last' = Event("restore_ui", version)
        /\ UNCHANGED db

\* "Publish" / "Un-Publish" committing without the listing being run again
PublishToggled_WithoutListing ==
    \E row \in 0 .. Len(versions) - 1 :
        LET version == versions[row + 1]
        IN  /\ db[version].created_by = "me"
            /\ db' = [db EXCEPT ![version].is_published = ~@]
            /\ Returns(WidgetState)
            /\ last' = Event("context_menu", None)

\* "Publish" / "Un-Publish" of the context menu of a row that has items,
\* offered for the Versions the logged in user created
PublishToggled ==
    \E row \in 0 .. Len(versions) - 1 :
        LET version == versions[row + 1]
            committed == [db EXCEPT ![version].is_published = ~@]
        IN  /\ db[version].created_by = "me"
            /\ db' = committed
            /\ Returns(update_previous_versions_tableWidget(WidgetState,
                                                            committed))
            /\ last' = Event("context_menu", None)

\* another user of the shared database saves a new Version
OtherUserSaves ==
    \E task \in OtherUsersTasks, take_name \in StoredTakes :
        /\ Len(db) < MaxVersions
        /\ db' = Append(db,
               [task |-> task, take_name |-> take_name,
                version_number |-> NextVersionNumber(db, task, take_name),
                is_published |-> FALSE, status |-> StatusNames[1],
                created_by |-> "other", note |-> None])
        /\ Returns(WidgetState)
        /\ last' = Event("other_user_saves", None)

Next ==
    \/ SelectItem
    \/ MyTasksOnlyToggled
    \/ SelectTake
    \/ AddTake
    \/ PublishedOnlyToggled
    \/ VersionCountChanged
    \/ SelectRow
    \/ GuessFromPath
    \/ PublishToggled
    \/ OtherUserSaves

Spec == Init /\ [][Next]_vars

\* the dialog alone: no other user writes to the database meanwhile
NextSingleUser ==
    \/ SelectItem
    \/ MyTasksOnlyToggled
    \/ SelectTake
    \/ AddTake
    \/ PublishedOnlyToggled
    \/ VersionCountChanged
    \/ SelectRow
    \/ GuessFromPath
    \/ PublishToggled

SpecSingleUser == Init /\ [][NextSingleUser]_vars

-----------------------------------------------------------------------------
(* The conditioning of the take name on every text of a bounded length     *)

\* the dialog returns texts of at most MaxTextLen characters
MaxTextLen == 3

\* a lower and an upper case letter, a digit, the separators of the
\* conditioning, a character it strips and a cased letter outside ASCII
TakeNameChars == {"a", "B", "1", " ", "-", "_", "#", "e-acute"}

AllTexts == UNION {[1 .. n -> TakeNameChars] : n \in 0 .. MaxTextLen}

\* add_take_toolButton is clicked and the input dialog is accepted with any
\* text, while the take list holds fewer than MaxTakes entries
AddTakeOfAnyText ==
    \E text \in AllTexts :
        /\ mode = 0
        /\ Len(takes) < MaxTakes
        /\ Returns(add_take_toolButton_clicked(WidgetState, db, text, TRUE))
        /\ last' = Event("add_take", text)
        /\ UNCHANGED db

NextTakeName ==
    \/ SelectItem
    \/ SelectTake
    \/ AddTakeOfAnyText

SpecTakeName == Init /\ [][NextTakeName]_vars

-----------------------------------------------------------------------------
(* The context menu of the previous-versions table in full                 *)

\* the context menu changes the status or the note of at most MaxEdited of
\* the Versions the database held at construction
MaxEdited == 2

EditedVersions(d) ==
    {v \in DOMAIN InitialVersions :
        \/ d[v].status # InitialVersions[v].status
        \/ d[v].note # InitialVersions[v].note}

\* a status of the "Change Status" sub-menu (filled in Save-As mode only) is
\* chosen for the Version of a row that has items
StatusChanged ==
    \E row \in 0 .. Len(versions) - 1 : \E name \in Range(StatusNames) :
        LET version == versions[row + 1]
            committed == [db EXCEPT ![version].status = name]
        IN  /\ mode = 0
            /\ Cardinality(EditedVersions(committed)) <= MaxEdited
            /\ db' = committed
            /\ Returns(update_previous_versions_tableWidget(WidgetState,
                                                            committed))
            /\ last' = Event("context_menu", None)

\* "Change Note..." (offered in Save-As mode only) is chosen for the Version
\* of a row that has items and the input dialog is answered
NoteChanged ==
    \E row \in 0 .. Len(versions) - 1 : \E ok \in BOOLEAN :
      \E new_note \in IF ok THEN NoteTexts ELSE {None} :
        LET version == versions[row + 1]
            committed == [db EXCEPT ![version].note = new_note]
        IN  /\ mode = 0
            /\ IF ok
               THEN /\ Cardinality(EditedVersions(committed)) <= MaxEdited
                    /\ db' = committed
                    /\ Returns(update_previous_versions_tableWidget(
                           WidgetState, committed))
                    /\ last' = Event("context_menu", None)
               ELSE /\ UNCHANGED db
                    /\ Returns(WidgetState)
                    /\ last' = Event("change_note_cancelled", None)

NextContextMenu ==
    \/ SelectItem
    \/ MyTasksOnlyToggled
    \/ SelectTake
    \/ PublishedOnlyToggled
    \/ VersionCountChanged
    \/ PublishToggled
    \/ StatusChanged
    \/ NoteChanged

SpecContextMenu == Init /\ [][NextContextMenu]_vars

-----------------------------------------------------------------------------
(* The dialog in Read-Only mode                                            *)

\* the dialog as constructed without an environment in Read-Only mode
InitReadOnly ==
    \E mto \in BOOLEAN, count \in 1 .. MaxCount :
        Starts(Constructed(1, None, mto, count))

\* chose_pushButton (shown in Read-Only mode only) is clicked: the button
\* is connected by the signal name "cliched()", which it does not have, so
\* no slot is connected to its clicked() and nothing runs
ChooseClicked ==
    /\ mode = 1
    /\ Returns(WidgetState)
    /\ last' = Event("chose_pushButton", None)
    /\ UNCHANGED db

\* a cell of the previous-versions table is double-clicked: its row becomes
\* the current row and, connected in Read-Only mode, cellDoubleClicked calls
\* chose_pushButton_clicked
CellDoubleClicked ==
    \E row \in 0 .. row_count - 1 :
        /\ mode = 1
        /\ Returns(chose_pushButton_clicked(
               [WidgetState EXCEPT !.current_row = row]))
        /\ last' = Event("cellDoubleClicked", None)
        /\ UNCHANGED db

NextReadOnly ==
    \/ SelectItem
    \/ MyTasksOnlyToggled
    \/ SelectTake
    \/ PublishedOnlyToggled
    \/ VersionCountChanged
    \/ SelectRow
    \/ GuessFromPath
    \/ PublishToggled
    \/ ChooseClicked
    \/ CellDoubleClicked

SpecReadOnly == InitReadOnly /\ [][NextReadOnly]_vars

-----------------------------------------------------------------------------
(* The logged in user                                                      *)

\* a call of get_logged_in_user is given the answers of at most MaxPrompts
\* login dialogs
MaxPrompts == 2

\* the LocalSession, which the dialogs of the user share, is deleted by the
\* logout of another of them
LocalSessionDeleted ==
    /\ session_user # None
    /\ Returns([WidgetState EXCEPT !.session_user = None])
    /\ last' = Event("logout_elsewhere", None)
    /\ UNCHANGED db

\* the context menu of a row that has items is opened, which asks for the
\* logged in user first, and is left without a choice
ContextMenuDismissed ==
    \E row \in 0 .. Len(versions) - 1 :
      \E answers \in [1 .. MaxPrompts -> BOOLEAN] :
        LET got == get_logged_in_user(session_user, answers)
        IN  /\ Returns([WidgetState EXCEPT
                           !.session_user = got.session_user])
            /\ last' = Event("get_logged_in_user", got.logged_in_user)
            /\ UNCHANGED db

NextLogin ==
    \/ SelectItem
    \/ SelectTake
    \/ PublishedOnlyToggled
    \/ VersionCountChanged
    \/ LocalSessionDeleted
    \/ ContextMenuDismissed

SpecLogin == Init /\ [][NextLogin]_vars

-----------------------------------------------------------------------------
(* The buttons that act on a previous version, in Save-As mode             *)

\* the dialog as constructed with an environment: _set_defaults ends with
\* restore_ui of the version environment.get_last_version() returns
InitWithEnvironment ==
    \E mto \in BOOLEAN, count \in 1 .. MaxCount :
      \E version \in {NoVersion} \cup DOMAIN InitialVersions :
        \E w \in {restore_ui(Constructed(0, Env, mto, count),
                              InitialVersions, version, <<Main, Alt>>)} :
            w.raised = None /\ Starts(w)

\* with or without an environment
InitSaveAsMode == Init \/ InitWithEnvironment

\* open_pushButton (hidden in Read-Only mode) is clicked
OpenClicked ==
    \E first_raises, answer_yes, forced_raises \in BOOLEAN :
        /\ mode = 0
        /\ Returns(open_pushButton_clicked(WidgetState, first_raises,
                                           answer_yes, forced_raises))
        /\ last' = Event("open_pushButton",
                         [version |-> get_previous_version(WidgetState),
                          first_raises |-> first_raises,
                          answer_yes |-> first_raises /\ answer_yes])
        /\ UNCHANGED db

\* reference_pushButton (hidden in Read-Only mode and without an
\* environment) is clicked
ReferenceClicked ==
    /\ mode = 0
    /\ environment # None
    /\ Returns(reference_pushButton_clicked(WidgetState, db))
    /\ last' = Event("reference_pushButton", get_previous_version(WidgetState))
    /\ UNCHANGED db

\* import_pushButton (hidden as reference_pushButton is) is clicked
ImportClicked ==
    /\ mode = 0
    /\ environment # None
    /\ Returns(import_pushButton_clicked(WidgetState))
    /\ last' = Event("import_pushButton", get_previous_version(WidgetState))
    /\ UNCHANGED db

NextOpen ==
    \/ SelectItem
    \/ SelectTake
    \/ PublishedOnlyToggled
    \/ VersionCountChanged
    \/ SelectRow
    \/ PublishToggled
    \/ OpenClicked
    \/ ReferenceClicked
    \/ ImportClicked

SpecOpen == InitSaveAsMode /\ [][NextOpen]_vars

-----------------------------------------------------------------------------
(* Save As, with and without an environment                                *)

\* save_as_pushButton (hidden in Read-Only mode) is clicked
SaveAsClicked ==
    \E build_error, save_error, published \in BOOLEAN :
      \E note \in NoteTexts \cup {None} :
        \E ord \in IF get_task(WidgetState) = None THEN {<<Main, Alt>>}
                    ELSE TakeOrdersOf(
                           Append(db, get_new_version(WidgetState, db,
                                                      published, note)),
                           current_item) :
          \E after \in {save_as_pushButton_clicked(
                            WidgetState, db, build_error, save_error,
                            published, note, ord)} :
            /\ mode = 0
            /\ Len(db) < MaxVersions
            /\ Returns(after.w)
            /\ db' = after.d
            /\ last' = Event("save_as_pushButton",
                             [build_error |-> build_error,
                              save_error |-> save_error])

NextSaveAs ==
    \/ SelectItem
    \/ MyTasksOnlyToggled
    \/ SelectTake
    \/ SelectRow
    \/ SaveAsClicked

SpecSaveAs == InitSaveAsMode /\ [][NextSaveAs]_vars

TypeOK ==
    /\ db \in Seq(VersionRows) /\ Len(db) <= MaxVersions
    /\ mode \in {0, 1}
    /\ current_item \in tree_items \cup {None}
    /\ current_take \in -1 .. Len(takes) - 1
    /\ \A i \in DOMAIN versions : versions[i] \in DOMAIN db
    /\ current_row \in -1 .. row_count - 1
    /\ raised \in {None, "IndexError", "AttributeError", "RuntimeError"}
    /\ environment \in {None, Env}
    /\ chosen_version \in {NoVersion} \cup DOMAIN db
    /\ closed \in BOOLEAN
    /\ session_user \in {None, Me}


-----------------------------------------------------------------------------
(* What the claims speak of                                                *)

version_number(v) == db[v].version_number

\* some UI event handler has just returned
HandlerReturned == last.op \notin {"init", "other_user_saves"}

\* the last event ran update_previous_versions_tableWidget to its end for a
\* selected task and a selected, non-empty take, and the database has not
\* changed since
ListingRan ==
    /\ \/ last.op \in {"takes_listWidget_changed",
                       "update_previous_versions_tableWidget", "context_menu"}
       \/ last.op = "tasks_treeWidget_changed"
    /\ current_item \in Tasks
    /\ current_take # -1
    /\ takes[current_take + 1] # <<>>

\* the persisted versions of the selected (task, take) that pass the
\* published-only filter, stated on the rows themselves
Matching ==
    {v \in DOMAIN db : /\ db[v].task = current_item
                       /\ current_take # -1
                       /\ db[v].take_name = takes[current_take + 1]
                       /\ published_only => db[v].is_published}

\* the listing of the selected (task, take), empty without a task or a take
ListingOfSelection ==
    IF current_item \notin Tasks \/ current_take = -1 THEN <<>>
    ELSE IF takes[current_take + 1] = <<>> THEN <<>>
    ELSE query_versions(db, current_item, takes[current_take + 1],
                        published_only, version_count)

\* C1: after a listing the cache holds exactly the `limit` matching versions
\* with the highest version numbers (all of them when fewer exist), in
\* ascending order of version number.
C1_ListingKeepsHighestAscending ==
    ListingRan =>
        /\ Range(versions) \subseteq Matching
        /\ Len(versions) = Min(version_count, Cardinality(Matching))
        /\ \A i, j \in DOMAIN versions :
              i < j => version_number(versions[i]) < version_number(versions[j])
        /\ \A v \in Matching \ Range(versions) : \A i \in DOMAIN versions :
              version_number(v) < version_number(versions[i])

\* a listing that cut a window of two or more out of more matching versions
C1_Witness ==
    /\ ListingRan
    /\ version_count >= 2
    /\ Cardinality(Matching) > version_count
    /\ Len(versions) = version_count

\* C2: with the published-only filter on, a listing leaves no version in the
\* cache whose is_published is false.
C2_PublishedOnlyExcludesUnpublished ==
    (ListingRan /\ published_only) =>
        \A i \in DOMAIN versions : db[versions[i]].is_published

\* a published-only listing that shows a version and left one out
C2_Witness ==
    /\ ListingRan
    /\ published_only
    /\ versions # <<>>
    /\ \E v \in DOMAIN db : /\ db[v].task = current_item
                            /\ db[v].take_name = takes[current_take + 1]
                            /\ ~db[v].is_published

\* C3: once a UI event handler has returned, the cache equals the listing
\* of the currently selected (task, take) and is empty when no task or no
\* take is selected.
C3_CacheIsListingOfSelection ==
    HandlerReturned => versions = ListingOfSelection


\* restore_ui has just returned (or raised) for a Version whose project is
\* active and whose task has an item in the tree. Only then is last.arg read
\* as a Version.
RestoredReference ==
    /\ last.op = "restore_ui"
    /\ last.arg # NoVersion
    /\ IsActive(ProjectOf(db[last.arg].task))
    /\ db[last.arg].task \in tree_items

\* the listing of the reference's (task, take) under the current filter and
\* limit
ListingOfReference ==
    query_versions(db, db[last.arg].task, db[last.arg].take_name,
                   published_only, version_count)

\* the task and the take of the reference are the selected ones
ReferenceTaskAndTakeSelected ==
    /\ current_item = db[last.arg].task
    /\ current_take # -1
    /\ takes[current_take + 1] = db[last.arg].take_name

\* C4: restore_ui with a reference (active project, task in the tree) that
\* is in the listing of its (task, take) under the current filter and limit
\* ends with that task, that take and the row of exactly that version
\* selected.
C4_RestoreSelectsListedReference ==
    (RestoredReference /\ last.arg \in Range(ListingOfReference)) =>
        /\ raised = None
        /\ ReferenceTaskAndTakeSelected
        /\ current_row # -1
        /\ current_row < Len(versions)
        /\ versions[current_row + 1] = last.arg

\* C5: restore_ui with a reference that is not in the capped / filtered
\* listing of its (task, take) selects the task and the take and ends with
\* no row selected.
C5_RestoreOfUnlistedReferenceSelectsNoRow ==
    (RestoredReference /\ last.arg \notin Range(ListingOfReference)) =>
        /\ ReferenceTaskAndTakeSelected
        /\ current_row = -1

\* restore_ui(version) returns at once: no version, an inactive project or
\* a task without an item in the tree
RestoreReturnsAtOnce(version) ==
    \/ version = NoVersion
    \/ ~IsActive(ProjectOf(db[version].task))
    \/ db[version].task \notin tree_items

\* C6: restore_ui with no version, with a version of an inactive project or
\* with a version whose task has no item in the tree raises nothing and
\* leaves the task selection, the take list, the take selection, the cache
\* and the selected row as they were.
C6_RestoreNoOp ==
    [][(last'.op = "restore_ui" /\ RestoreReturnsAtOnce(last'.arg)) =>
          /\ raised' = None
          /\ UNCHANGED <<current_item, takes, current_take, versions,
                         current_row>>]_vars

\* restore_ui was given the version of a task the tree does not show, while
\* another task, a listing and a row were selected
C6_Witness ==
    /\ last.op = "restore_ui"
    /\ last.arg # NoVersion
    /\ IsActive(ProjectOf(db[last.arg].task))
    /\ db[last.arg].task \notin tree_items
    /\ current_item \in Tasks
    /\ versions # <<>>
    /\ current_row # -1

\* C7: restore_ui whose take list has no entry equal to the reference's
\* take name raises nothing.
C7_RestoreWithoutMatchingTakeIsSilent ==
    ( /\ RestoredReference
      /\ \A i \in DOMAIN takes : takes[i] # db[last.arg].take_name ) =>
        raised = None

\* C8: add-take with a text that conditions to the empty string adds no
\* entry to the take list and leaves the take selection as it was.
C8_EmptyTakeNameRejected ==
    [][(last'.op = "add_take" /\ condition_take_name(last'.arg) = <<>>) =>
          UNCHANGED <<takes, current_take>>]_vars

\* C9: add-take with a text whose conditioned name equals an entry of the
\* take list leaves the take list as it was, entries and order.
C9_DuplicateTakeNotInserted ==
    [][(last'.op = "add_take"
          /\ condition_take_name(last'.arg) \in Range(takes)) =>
          takes' = takes]_vars

\* "main" was entered while the list of two takes held "Main", and the
\* handler returned normally
C9_Witness ==
    /\ last.op = "add_take"
    /\ last.arg = <<"m","a","i","n">>
    /\ raised = None
    /\ Len(takes) = 2
    /\ Main \in Range(takes)

\* C10: add-take with a text whose conditioned name equals an entry of the
\* take list ends with that entry selected.
C10_DuplicateTakeSelected ==
    [][(last'.op = "add_take"
          /\ last'.arg # <<>>
          /\ condition_take_name(last'.arg) \in Range(takes)) =>
          /\ current_take' # -1
          /\ takes'[current_take' + 1] = condition_take_name(last'.arg)]_vars


\* the take list is in ascending order of its texts
TakesAscending(list) ==
    \A i, j \in DOMAIN list : i < j => ~TextLess(list[j], list[i])

\* list holds the entries of old and name once more
IsListWith(list, old, name) ==
    /\ Len(list) = Len(old) + 1
    /\ \A t \in Range(list) \cup {name} :
          Cardinality({i \in DOMAIN list : list[i] = t}) =
              Cardinality({i \in DOMAIN old : old[i] = t})
              + (IF t = name THEN 1 ELSE 0)

\* C11: add-take with a text whose conditioned name is not empty and not in
\* the take list ends with that name added to the list, the whole list in
\* ascending order and the new entry selected.
C11_NewTakeAppendedSortedSelected ==
    [][(last'.op = "add_take"
          /\ condition_take_name(last'.arg) # <<>>
          /\ condition_take_name(last'.arg) \notin Range(takes)) =>
          /\ IsListWith(takes', takes, condition_take_name(last'.arg))
          /\ TakesAscending(takes')
          /\ current_take' # -1
          /\ takes'[current_take' + 1] = condition_take_name(last'.arg)]_vars


\* add-take has conditioned the text it was given: the dialog was accepted
\* with a text that is not empty and nothing was raised before
TakeNameConditioned ==
    /\ last.op = "add_take"
    /\ raised = None
    /\ last.arg # <<>>

\* C12: conditioning the take name is idempotent: conditioning the name it
\* computed gives that name again.
C12_ConditioningIdempotent ==
    TakeNameConditioned =>
        condition_take_name(condition_take_name(last.arg)) =
            condition_take_name(last.arg)

\* C13: a conditioned take name that is not empty neither starts nor ends
\* with an underscore and has no two underscores in a row.
C13_NoLeadingTrailingDoubleUnderscore ==
    LET name == condition_take_name(last.arg)
    IN  (TakeNameConditioned /\ name # <<>>) =>
            /\ name[1] # "_"
            /\ name[Len(name)] # "_"
            /\ \A i \in 1 .. Len(name) - 1 :
                  ~(name[i] = "_" /\ name[i + 1] = "_")


IsAsciiLetter(c) == c \in Range(UPPER) \cup Range(LOWER)

\* text is made of words of ASCII letters separated by runs of white space
\* or hyphens
IsWordsText(text) ==
    /\ text # <<>>
    /\ \A i \in DOMAIN text : IsAsciiLetter(text[i]) \/ IsSpaceOrHyphen(text[i])
    /\ IsAsciiLetter(text[1])
    /\ IsAsciiLetter(text[Len(text)])

\* the words of such a text, each with its first letter in upper case and
\* the others in lower case, joined by single underscores
RECURSIVE WordsJoined(_, _)
WordsJoined(text, i) ==
    IF i > Len(text) THEN <<>>
    ELSE IF IsSpaceOrHyphen(text[i])
         THEN (IF IsSpaceOrHyphen(text[i - 1]) THEN <<>> ELSE <<"_">>)
              \o WordsJoined(text, i + 1)
         ELSE <<IF i = 1 \/ IsSpaceOrHyphen(text[i - 1])
                THEN ToUpper(text[i]) ELSE ToLower(text[i])>>
              \o WordsJoined(text, i + 1)

\* C14: add-take with a text of ASCII words separated by white space or
\* hyphens computes the words, capitalised and joined by single underscores,
\* as the take name: that name is in the take list afterwards, inserted when
\* it was not there (also into an empty take list).
C14_WordsCapitalisedAndJoined ==
    [][(last'.op = "add_take" /\ IsWordsText(last'.arg)) =>
          /\ condition_take_name(last'.arg) = WordsJoined(last'.arg, 1)
          /\ WordsJoined(last'.arg, 1) \in Range(takes')
          /\ WordsJoined(last'.arg, 1) \notin Range(takes) =>
                IsListWith(takes', takes, WordsJoined(last'.arg, 1))]_vars


\* C15: add-take raises nothing, whatever text is entered and whatever
\* state the dialog is in, the take list being empty or without a current
\* item included.
C15_AddTakeNeverRaises ==
    last.op \in {"add_take", "add_take_cancelled"} => raised = None


\* no task is selected (no current tree item, or a project) or the selected
\* take name is empty
NoTaskOrNoTake ==
    \/ current_item \notin Tasks
    \/ current_take = -1
    \/ takes[current_take + 1] = <<>>

\* C16: a listing that runs while no task is selected or the selected take
\* name is empty leaves the cache empty, sets no rows and leaves the
\* displayed status as it was.
C16_ListingWithoutTaskOrTakeIsEmpty ==
    [][(last'.op \in {"update_previous_versions_tableWidget",
                      "takes_listWidget_changed", "context_menu"}
          /\ NoTaskOrNoTake') =>
          /\ versions' = <<>>
          /\ row_count' = row_count
          /\ status' = status]_vars

\* the listing ran for an empty take name of a task, or without a task, and
\* emptied the cache of a table that has rows
C16_Witness ==
    /\ last.op \in {"update_previous_versions_tableWidget",
                     "takes_listWidget_changed"}
    /\ \/ current_item \in Tasks /\ current_take # -1
             /\ takes[current_take + 1] = <<>>
       \/ current_item \notin Tasks
    /\ row_count > 0
    /\ versions = <<>>


\* the status shown is the status of the last element of the listing w
\* holds, which has the highest version number of it
ShowsStatusOfLast(w, d) ==
    w.versions # <<>> =>
        /\ w.status = d[w.versions[Len(w.versions)]].status
        /\ \A i \in DOMAIN w.versions :
              d[w.versions[i]].version_number <=
                  d[w.versions[Len(w.versions)]].version_number

\* C17: when update_previous_versions_tableWidget returns a listing that
\* is not empty, the status combo box shows the status of its last element,
\* the one with the highest version number: so after every handler that is
\* the listing, and so for the listing run in any state of the dialog.
C17_StatusOfLastListed ==
    /\ last.op \in {"update_previous_versions_tableWidget", "context_menu"}
          => ShowsStatusOfLast(WidgetState, db)
    /\ ShowsStatusOfLast(
           update_previous_versions_tableWidget(WidgetState, db), db)

\* the status of the last listed version was changed through the context
\* menu and the listing run after the commit shows it
C17_Witness ==
    /\ last.op = "context_menu"
    /\ versions # <<>>
    /\ db[versions[Len(versions)]].status
           # InitialVersions[versions[Len(versions)]].status
    /\ status = db[versions[Len(versions)]].status


\* the persisted versions of (task, take_name) that pass the published-only
\* filter when it is on; none without a task
Filtered(d, item, take_name, published) ==
    IF item \notin Tasks THEN {}
    ELSE {v \in DOMAIN d : /\ d[v].task = item
                           /\ d[v].take_name = take_name
                           /\ published => d[v].is_published}

HighestOf(d, S) ==
    CHOOSE v \in S : \A u \in S : d[u].version_number <= d[v].version_number

\* C18: when the handler of a change of the take selection has finished,
\* the status shown is the status of the highest version of the filtered
\* list (task, take and published-only when it is on) and is the status
\* shown before when that list is empty.
C18_StatusFollowsFilteredList ==
    [][last'.op \in {"takes_listWidget_changed", "tasks_treeWidget_changed"} =>
          LET take_name == IF current_take' = -1 THEN <<>>
                           ELSE takes'[current_take' + 1]
              filtered == Filtered(db', current_item', take_name,
                                   published_only')
          IN  status' = IF filtered = {} THEN status
                        ELSE db'[HighestOf(db', filtered)].status]_vars


\* C19: the take list never holds two equal entries, neither as rebuilt on
\* a task selection nor after any add-take.
C19_TakeListHasNoDuplicates ==
    \A i, j \in DOMAIN takes : i # j => takes[i] # takes[j]

\* the take list was rebuilt from a stored take name and the default take
C19_Witness ==
    /\ last.op = "tasks_treeWidget_changed"
    /\ Len(takes) = 2
    /\ version_take_name \in Range(takes)
    /\ \E v \in DOMAIN db : /\ db[v].task = current_item
                            /\ db[v].take_name # version_take_name


\* C20: when a handler of the context menu that committed a change
\* (Publish, Un-Publish, a status, a note) returns, the listing has been run
\* again on the committed database: the cache is the listing of the current
\* task, take, published-only setting and limit, and the table has its rows.
C20_ContextMenuCommitRunsListing ==
    last.op = "context_menu" =>
        /\ versions = ListingOfSelection
        /\ current_row = -1
        /\ ~NoTaskOrNoTake => row_count = Len(versions)

\* with published-only on, a version of the selected task that the user
\* created and annotated is un-published and is not in the cache, which
\* lists other versions
C20_Witness ==
    /\ last.op = "context_menu"
    /\ published_only
    /\ versions # <<>>
    /\ \E v \in DOMAIN db : /\ db[v].task = current_item
                            /\ db[v].created_by = "me"
                            /\ db[v].note # None
                            /\ ~db[v].is_published
                            /\ v \notin Range(versions)


\* a row that shows a version is the current row
VersionRowSelected ==
    current_row # -1 /\ current_row < Len(versions)

\* C21: in Read-Only mode, a click on Choose or a double click on a row
\* while a row with a version is current sets chosen_version to the version
\* of that row and closes the dialog; with no version to choose the dialog
\* stays open and chosen_version stays None.
C21_ChooseSetsVersionAndCloses ==
    [][(mode = 1 /\ last'.op \in {"chose_pushButton", "cellDoubleClicked"}) =>
          IF VersionRowSelected'
          THEN chosen_version' = versions'[current_row' + 1] /\ closed'
          ELSE chosen_version' = NoVersion /\ ~closed']_vars


\* C22: get_logged_in_user returns a user: with no user logged in and the
\* login dialog rejected it asks again, and never returns None.
C22_LoggedInUserNeverAbsent ==
    last.op = "get_logged_in_user" => last.arg # None


\* the version the last click on Open, Reference or Import acted on
ActedOn ==
    IF last.op = "open_pushButton" THEN last.arg.version ELSE last.arg

\* C23: get_previous_version returns the version of the current row and
\* None when no row is current, also when the cache is not empty: Open,
\* Reference and Import act on no version the user did not select.
C23_ActsOnSelectedVersionOnly ==
    last.op \in {"open_pushButton", "reference_pushButton",
                 "import_pushButton"} =>
        ActedOn = IF VersionRowSelected THEN versions[current_row + 1]
                  ELSE NoVersion

\* C25: Reference never calls environment.reference with a version that is
\* not published: for an un-published version it returns without a call of
\* the environment and without raising.
C25_ReferenceOnlyPublished ==
    last.op = "reference_pushButton" =>
        /\ \A i \in DOMAIN calls :
              calls[i].op = "reference" =>
                  /\ calls[i].version # NoVersion
                  /\ db[calls[i].version].is_published
        /\ (last.arg # NoVersion /\ ~db[last.arg].is_published) =>
              calls = <<>> /\ raised = None /\ ~closed

\* Reference was clicked with an environment while the selected row shows
\* an un-published version
C25_Witness ==
    /\ last.op = "reference_pushButton"
    /\ environment # None
    /\ VersionRowSelected
    /\ last.arg = versions[current_row + 1]
    /\ ~db[last.arg].is_published
    /\ calls = <<>>


\* C24: in Read-Only mode no operation of the dialog changes the persisted
\* data.
C24_ReadOnlyKeepsDatabase ==
    [][mode = 1 => db' = db]_vars

\* the positions in calls of the calls of one method of the environment
CallsOf(op) ==
    {i \in DOMAIN calls : calls[i].op = op}

\* C27: Open with an environment: post_open is called once at most, and
\* the dialog closes only after a call of open_ that returned, followed by
\* the one call of post_open; when the first open_ raises RuntimeError and
\* the answer is No there is no second open_, no post_open and the dialog
\* stays open; when the answer is Yes open_ is called a second time, with
\* force.
C27_OpenThenPostOpenThenClose ==
    (last.op = "open_pushButton" /\ environment # None) =>
        /\ \A i \in DOMAIN calls : calls[i].version = last.arg.version
        /\ calls # <<>>
        /\ calls[1].op = "open_" /\ ~calls[1].force
        /\ calls[1].returned = ~last.arg.first_raises
        /\ Cardinality(CallsOf("post_open")) <= 1
        /\ closed <=> CallsOf("post_open") # {}
        /\ closed =>
              \E i \in CallsOf("open_") :
                  /\ calls[i].returned
                  /\ CallsOf("post_open") = {i + 1}
                  /\ Len(calls) = i + 1
        /\ (last.arg.first_raises /\ ~last.arg.answer_yes) =>
              calls = <<calls[1]>> /\ ~closed /\ raised = None
        /\ (last.arg.first_raises /\ last.arg.answer_yes) =>
              /\ Len(calls) >= 2
              /\ CallsOf("open_") = {1, 2}
              /\ calls[2].force

\* the first open_ raised, the user answered Yes, the call with force
\* returned and the dialog closed
C27_Witness ==
    /\ last.op = "open_pushButton"
    /\ environment # None
    /\ last.arg.first_raises /\ last.arg.answer_yes
    /\ Len(calls) = 3 /\ ~calls[1].returned /\ calls[2].returned
    /\ closed

\* the first open_ raised and the user answered No
C27_WitnessNo ==
    /\ last.op = "open_pushButton"
    /\ environment # None
    /\ last.arg.first_raises /\ ~last.arg.answer_yes
    /\ Len(calls) = 1


\* the take names of the persisted versions of a task
TakeNamesOf(d, task) ==
    {d[v].take_name : v \in {u \in DOMAIN d : d[u].task = task}}

\* a click on Save As where neither building the version nor the save step
\* raised
SaveSucceeded ==
    /\ last'.op = "save_as_pushButton"
    /\ ~last'.arg.build_error
    /\ ~(environment # None /\ last'.arg.save_error)
    /\ raised' = None

\* C26: Save As commits only after the save step succeeded: when building
\* the version raises TypeError or ValueError, or environment.save_as raises
\* RuntimeError, nothing is committed and the dialog stays open; on success
\* exactly one new Version, of the selected task and take, is committed,
\* and then the dialog closes with an environment, and without one stays
\* open with the take list of the current task filled again.
C26_SaveAsCommitsAfterSave ==
    [][last'.op = "save_as_pushButton" =>
         IF SaveSucceeded
         THEN /\ Len(db') = Len(db) + 1
              /\ SubSeq(db', 1, Len(db)) = db
              /\ db'[Len(db')].task = current_item
              /\ db'[Len(db')].take_name = takes[current_take + 1]
              /\ db'[Len(db')].created_by = Me
              /\ closed' = (environment # None)
              /\ environment = None =>
                    /\ current_item' = current_item
                    /\ Range(takes') =
                         TakeNamesOf(db', current_item) \cup {version_take_name}
                    /\ Len(takes') = Cardinality(Range(takes'))
         ELSE db' = db /\ ~closed']_vars

\* environment.save_as raised RuntimeError for a selected task and take:
\* the database holds the versions it held at the start
C26_Witness ==
    /\ last.op = "save_as_pushButton"
    /\ environment # None
    /\ ~last.arg.build_error /\ last.arg.save_error
    /\ current_item \in Tasks /\ current_take # -1
    /\ calls # <<>> /\ ~calls[1].returned
    /\ db = InitialVersions
    /\ ~closed

\* a version was saved with an environment and the dialog closed
C26_WitnessClosed ==
    /\ last.op = "save_as_pushButton"
    /\ environment # None
    /\ Len(db) = Len(InitialVersions) + 1
    /\ closed

\* a version was saved without an environment and the dialog is open
C26_WitnessRefreshed ==
    /\ last.op = "save_as_pushButton"
    /\ environment = None
    /\ Len(db) = Len(InitialVersions) + 1
    /\ ~closed

=============================================================================
